---- MODULE Spec2Model ----
(***************************************************************************)
(* A model of three pieces of the turborepo workspace:                      *)
(*   - crates/turbo-tasks/src/magic_any.rs : the type-erased MagicAny       *)
(*     handle (equality, ordering, hashing, the serialization bridge and    *)
(*     the two deserialization seeds);                                       *)
(*   - crates/next-core/src/manifest.rs    : DevManifestContentSource       *)
(*     (find_routes, get, strip_base_path);                                  *)
(*   - crates/turbo-trace/src/main.rs      : the import-trace CLI.          *)
(* Strings whose characters matter (paths, routes, JSON, the wire format)   *)
(* are sequences of one-character strings.                                   *)
(***************************************************************************)
EXTENDS Integers, Sequences, FiniteSets, TLC

VARIABLES
    \* ---- magic_any.rs
    type_id,            \* TypeId::of::<T>() of every concrete type, fixed per process
    operands,           \* the two erased values the calls are made on
    debug_assertions,   \* cfg(debug_assertions) of the build
    last,               \* the last call made on an erased value and what it returned
    wire,               \* the bytes the last serialization wrote, and what they encode
    panicked,           \* a panic has unwound the calling thread
    \* ---- manifest.rs
    base_path,          \* DevManifestContentSource.base_path (an Option<String>)
    page_roots,         \* DevManifestContentSource.page_roots
    sources,            \* the content sources: kind, pathname and children of each
    mpc,                \* where get / find_routes stands
    orig_path,          \* the request path given to get
    queue,              \* find_routes: the work queue
    routes,             \* find_routes: the IndexSet of routes, in insertion order
    visits,             \* find_routes: how often each source was popped
    result,             \* what get returned
    \* ---- main.rs
    args,               \* the parsed command line
    tpc,                \* where main stands
    trace_result,       \* TraceResult { files, errors }
    cursor,             \* the index of the for loop running in main
    stdout,             \* lines written to standard output
    stderr,             \* lines written to the diagnostic stream
    exit_code           \* the process's exit status, -1 while it runs

magicVars == <<type_id, operands, debug_assertions, last, wire, panicked>>
manifestVars == <<base_path, page_roots, sources, mpc, orig_path, queue, routes, visits, result>>
traceVars == <<args, tpc, trace_result, cursor, stdout, stderr, exit_code>>
vars == <<magicVars, manifestVars, traceVars>>

(***************************************************************************)
(* Bounds of the model.                                                      *)
(***************************************************************************)
\* payload fields of the concrete types range over 0..MaxVal
MaxVal == 1
\* the inner hasher keeps its state modulo HashMod
HashMod == 5

(***************************************************************************)
(* Characters and decimal numbers.                                           *)
(***************************************************************************)
Digits == <<"0", "1", "2", "3", "4", "5", "6", "7", "8", "9">>

IsDigit(c) == \E d \in 1..10 : Digits[d] = c

DigitVal(c) == (CHOOSE d \in 1..10 : Digits[d] = c) - 1

RECURSIVE Decimal(_)
Decimal(n) == IF n < 10 THEN <<Digits[n + 1]>>
              ELSE Decimal(n \div 10) \o <<Digits[(n % 10) + 1]>>

Drop(s, n) == SubSeq(s, n + 1, Len(s))

Take(s, n) == SubSeq(s, 1, n)

StartsWith(s, p) == Len(p) <= Len(s) /\ Take(s, Len(p)) = p

(***************************************************************************)
(* The concrete types erased behind dyn MagicAny.  A payload is the          *)
(* sequence of the value's fields.                                           *)
(*   u8          one field, compared and hashed as a number                  *)
(*   Reverse_u8  std::cmp::Reverse<u8>: one field, the opposite order        *)
(*   Keyed       struct Keyed(key, note) whose Eq, Ord and Hash read key     *)
(*               alone                                                       *)
(***************************************************************************)
Types == {"u8", "Reverse_u8", "Keyed"}

Field == 0..MaxVal

Payloads(T) == IF T = "Keyed" THEN {<<k, n>> : k \in Field, n \in Field}
               ELSE {<<v>> : v \in Field}

\* Box<dyn MagicAny>: the vtable's concrete type and the owned payload
Values == UNION {{[ty |-> T, val |-> p] : p \in Payloads(T)} : T \in Types}

Reversed(o) == CASE o = "Less" -> "Greater"
                 [] o = "Greater" -> "Less"
                 [] OTHER -> "Equal"

IntCmp(x, y) == IF x < y THEN "Less" ELSE IF x > y THEN "Greater" ELSE "Equal"

\* T's own PartialEq
ConcreteEq(T, x, y) == x[1] = y[1]

\* T's own Ord
ConcreteCmp(T, x, y) == IF T = "Reverse_u8" THEN IntCmp(y[1], x[1])
                        ELSE IntCmp(x[1], y[1])

\* the inner Hasher's write: folds the bytes into its state
RECURSIVE InnerWrite(_, _)
InnerWrite(h, bytes) == IF bytes = <<>> THEN h
                        ELSE InnerWrite((h * 3 + bytes[1] + 1) % HashMod, Tail(bytes))

\* HasherMut forwards write and finish to the hasher it wraps
HasherMut_write(h, bytes) == InnerWrite(h, bytes)

HasherMut_finish(h) == h

\* T's own Hash, writing into a HasherMut
ConcreteHash(T, x, h) == HasherMut_write(h, <<x[1]>>)

TypeIdOf(T) == type_id[T]

type_name(T) == T

\* <dyn Any>::downcast_ref::<T>() on magic_any_ref(): Some exactly on the same TypeId
downcast_ref(self, T) == IF TypeIdOf(self.ty) = TypeIdOf(T)
                         THEN [some |-> TRUE, val |-> self.val]
                         ELSE [some |-> FALSE]

(***************************************************************************)
(* impl<T> MagicAny for T                                                    *)
(***************************************************************************)
\* a slip: compares the payloads whatever the types are
magic_eq_untyped(self, other) == ConcreteEq(self.ty, self.val, other.val)

magic_eq(self, other) ==
    LET o == downcast_ref(other, self.ty)
    IN  IF ~o.some THEN FALSE ELSE ConcreteEq(self.ty, self.val, o.val)

\* a slip: the fallback compares Self's TypeId with itself
magic_cmp_self_id(self, other) ==
    LET o == downcast_ref(other, self.ty)
    IN  IF ~o.some THEN IntCmp(TypeIdOf(self.ty), TypeIdOf(self.ty))
        ELSE ConcreteCmp(self.ty, self.val, o.val)

magic_cmp(self, other) ==
    LET o == downcast_ref(other, self.ty)
    IN  IF ~o.some THEN IntCmp(TypeIdOf(self.ty), TypeIdOf(other.ty))
        ELSE ConcreteCmp(self.ty, self.val, o.val)

\* a slip: hashes every field of the payload instead of using T's Hash
magic_hash_fields(self, hasher) ==
    HasherMut_write(HasherMut_write(hasher, <<TypeIdOf(self.ty)>>), self.val)

\* Hash::hash(&(TypeId::of::<Self>(), self), &mut HasherMut(hasher))
magic_hash(self, hasher) ==
    ConcreteHash(self.ty, self.val, HasherMut_write(hasher, <<TypeIdOf(self.ty)>>))

magic_type_name(self) == type_name(self.ty)

\* impl PartialEq for dyn MagicAny
PartialEq_eq(self, other) == magic_eq(self, other)

\* impl Ord for dyn MagicAny
Ord_cmp(self, other) == magic_cmp(self, other)

\* impl Hash for dyn MagicAny, then Hasher::finish
Hash_hash(self, hasher) == HasherMut_finish(magic_hash(self, hasher))

(***************************************************************************)
(* The wire format (JSON text, no type tag) and each type's Serialize and    *)
(* Deserialize.                                                              *)
(***************************************************************************)
\* T's own Serialize, written by a JSON serializer
ConcreteSerialize(T, x) ==
    IF T = "Keyed" THEN <<"[">> \o Decimal(x[1]) \o <<",">> \o Decimal(x[2]) \o <<"]">>
    ELSE Decimal(x[1])

RECURSIVE DigitRun(_)
DigitRun(s) == IF s = <<>> \/ ~IsDigit(s[1]) THEN 0 ELSE 1 + DigitRun(Tail(s))

RECURSIVE DecimalValue(_)
DecimalValue(s) == IF s = <<>> THEN 0
                   ELSE DecimalValue(Take(s, Len(s) - 1)) * 10 + DigitVal(s[Len(s)])

Fail(e) == [ok |-> FALSE, err |-> e]

\* a JSON deserializer reading one u8
ParseU8(input) ==
    IF input = <<>> THEN Fail("EofWhileParsingValue")
    ELSE IF ~IsDigit(input[1]) THEN Fail("InvalidType")
    ELSE IF input[1] = "0" THEN [ok |-> TRUE, val |-> 0, rest |-> Tail(input)]
    ELSE LET n == DigitRun(input)
             v == DecimalValue(Take(input, n))
         IN  IF v > 255 THEN Fail("InvalidValue")
             ELSE [ok |-> TRUE, val |-> v, rest |-> Drop(input, n)]

\* a JSON deserializer reading one given character
Expect(input, c, e) ==
    IF input = <<>> THEN Fail("EofWhileParsingValue")
    ELSE IF input[1] # c THEN Fail(e)
    ELSE [ok |-> TRUE, rest |-> Tail(input)]

ParseKeyed(input) ==
    LET open == Expect(input, "[", "InvalidType")
    IN  IF ~open.ok THEN open ELSE
    LET k == ParseU8(open.rest)
    IN  IF ~k.ok THEN k ELSE
    LET comma == Expect(k.rest, ",", "InvalidLength")
    IN  IF ~comma.ok THEN comma ELSE
    LET n == ParseU8(comma.rest)
    IN  IF ~n.ok THEN n ELSE
    LET close == Expect(n.rest, "]", "InvalidLength")
    IN  IF ~close.ok THEN close
        ELSE [ok |-> TRUE, val |-> <<k.val, n.val>>, rest |-> close.rest]

\* T's own Deserialize, driven by a JSON deserializer
ConcreteDeserialize(T, input) ==
    IF T = "Keyed" THEN ParseKeyed(input)
    ELSE LET r == ParseU8(input)
         IN  IF ~r.ok THEN r ELSE [ok |-> TRUE, val |-> <<r.val>>, rest |-> r.rest]

(***************************************************************************)
(* impl dyn MagicAny: the serialization bridge                               *)
(***************************************************************************)
\* a slip: hands the value on without looking at its type
as_serialize_unchecked(self, T) ==
    [outcome |-> "ok", ret |-> [ty |-> self.ty, val |-> self.val]]

as_serialize(self, T) ==
    LET r == downcast_ref(self, T)
    IN  IF r.some THEN [outcome |-> "ok", ret |-> [ty |-> T, val |-> r.val]]
        ELSE IF debug_assertions
        THEN [outcome |-> "panic",
              msg |-> <<"MagicAny::as_serializable broken: got", magic_type_name(self),
                        "but expected", type_name(T)>>]
        ELSE [outcome |-> "panic", msg |-> <<"MagicAny::as_serializable bug">>]

(***************************************************************************)
(* The deserialization seeds                                                 *)
(***************************************************************************)
\* fn deserialize<T> inside MagicAnyDeserializeSeed::new / AnyDeserializeSeed::new
deserialize(T, input) ==
    LET value == ConcreteDeserialize(T, input)
    IN  IF ~value.ok THEN [ok |-> FALSE, err |-> value.err]
        ELSE [ok |-> TRUE, value |-> [ty |-> T, val |-> value.val]]

\* a slip: the seed captures the functor of u8 whatever T is
MagicAnyDeserializeSeed_new_u8(T) == [functor |-> "u8"]

MagicAnyDeserializeSeed_new(T) == [functor |-> T]

AnyDeserializeSeed_new(T) == [functor |-> T]

\* a slip: a failed first attempt is tried again
MagicAnyDeserializeSeed_deserialize_retry(self, input) ==
    LET first == deserialize(self.functor, input)
        r == IF first.ok THEN first ELSE deserialize(self.functor, input)
    IN  IF r.ok THEN [calls |-> IF first.ok THEN 1 ELSE 2, outcome |-> "ok", ret |-> r.value]
        ELSE [calls |-> IF first.ok THEN 1 ELSE 2, outcome |-> "err", err |-> [custom |-> r.err]]

\* impl DeserializeSeed for MagicAnyDeserializeSeed
MagicAnyDeserializeSeed_deserialize(self, input) ==
    LET r == deserialize(self.functor, input)
    IN  IF r.ok THEN [calls |-> 1, outcome |-> "ok", ret |-> r.value]
        ELSE [calls |-> 1, outcome |-> "err", err |-> [custom |-> r.err]]

\* impl DeserializeSeed for AnyDeserializeSeed
AnyDeserializeSeed_deserialize(self, input) ==
    LET r == deserialize(self.functor, input)
    IN  IF r.ok THEN [calls |-> 1, outcome |-> "ok", ret |-> r.value]
        ELSE [calls |-> 1, outcome |-> "err", err |-> [custom |-> r.err]]

(***************************************************************************)
(* Calls on erased values.  Every action is one call; last records it.       *)
(***************************************************************************)
\* deserializer inputs that no serialization of this model wrote
Feeds == {<<>>, <<"x">>, <<"2", "5", "6">>, <<"[", "1">>, <<"7">>, <<"[", "1", ",", "0", "]">>}

HasherStates == 0..(HashMod - 1)

Operands == {operands[1], operands[2]}

\* the calls are pure: a behaviour is one call on a fresh pair of operands, or one
\* as_serialize, the serialization of what it returned and one deserialization
Fresh == ~panicked /\ last.op = "none"

ManifestIdle ==
    /\ base_path = [some |-> FALSE]
    /\ page_roots = <<>>
    /\ sources = <<>>
    /\ mpc = "idle"
    /\ orig_path = <<>>
    /\ queue = <<>>
    /\ routes = <<>>
    /\ visits = <<>>
    /\ result = [kind |-> "none"]

TraceIdle ==
    /\ args = [reverse |-> FALSE]
    /\ tpc = "idle"
    /\ trace_result = [files |-> <<>>, errors |-> <<>>]
    /\ cursor = 0
    /\ stdout = <<>>
    /\ stderr = <<>>
    /\ exit_code = -1

MagicInit ==
    /\ type_id \in {f \in [Types -> 1..Cardinality(Types)] :
                        \A s, t \in Types : f[s] = f[t] => s = t}
    /\ operands \in Values \X Values
    /\ debug_assertions \in BOOLEAN
    /\ last = [op |-> "none"]
    /\ wire = [written |-> FALSE]
    /\ panicked = FALSE

Eq ==
    /\ Fresh
    /\ \E self \in Operands, other \in Operands :
        last' = [op |-> "eq", self |-> self, other |-> other,
                 outcome |-> "ok", ret |-> PartialEq_eq(self, other)]
    /\ UNCHANGED <<type_id, operands, debug_assertions, wire, panicked, manifestVars, traceVars>>

Cmp ==
    /\ Fresh
    /\ \E self \in Operands, other \in Operands :
        last' = [op |-> "cmp", self |-> self, other |-> other,
                 outcome |-> "ok", ret |-> Ord_cmp(self, other)]
    /\ UNCHANGED <<type_id, operands, debug_assertions, wire, panicked, manifestVars, traceVars>>

HashInto ==
    /\ Fresh
    /\ \E self \in Operands, hasher \in HasherStates :
        last' = [op |-> "hash", self |-> self, hasher |-> hasher,
                 outcome |-> "ok", ret |-> Hash_hash(self, hasher)]
    /\ UNCHANGED <<type_id, operands, debug_assertions, wire, panicked, manifestVars, traceVars>>

DowncastRef ==
    /\ Fresh
    /\ \E self \in Operands, T \in Types :
        last' = [op |-> "downcast_ref", self |-> self, T |-> T,
                 outcome |-> "ok", ret |-> downcast_ref(self, T)]
    /\ UNCHANGED <<type_id, operands, debug_assertions, wire, panicked, manifestVars, traceVars>>

AsSerialize ==
    /\ Fresh
    /\ \E self \in Operands, T \in Types :
        LET r == as_serialize(self, T)
        IN  /\ last' = [op |-> "as_serialize", self |-> self, T |-> T] @@ r
            /\ panicked' = (r.outcome = "panic")
    /\ UNCHANGED <<type_id, operands, debug_assertions, wire, manifestVars, traceVars>>

\* the caller serializes the reference as_serialize returned
Serialize ==
    /\ ~panicked
    /\ last.op = "as_serialize"
    /\ last.outcome = "ok"
    /\ wire' = [written |-> TRUE, of |-> last.self, T |-> last.T,
                bytes |-> ConcreteSerialize(last.ret.ty, last.ret.val)]
    /\ last' = [op |-> "serialize", self |-> last.self, T |-> last.T, outcome |-> "ok"]
    /\ UNCHANGED <<type_id, operands, debug_assertions, panicked, manifestVars, traceVars>>

MagicSeedDeserialize ==
    /\ ~panicked
    /\ \E T \in Types, from_wire \in BOOLEAN, feed \in Feeds :
        /\ IF from_wire THEN last.op = "serialize" /\ feed = <<>> ELSE last.op = "none"
        /\ LET input == IF from_wire THEN wire.bytes ELSE feed
               seed == MagicAnyDeserializeSeed_new(T)
           IN  last' = [op |-> "seed_deserialize", kind |-> "magic", T |-> T,
                        input |-> input, from_wire |-> from_wire]
                       @@ MagicAnyDeserializeSeed_deserialize(seed, input)
    /\ UNCHANGED <<type_id, operands, debug_assertions, wire, panicked, manifestVars, traceVars>>

AnySeedDeserialize ==
    /\ ~panicked
    /\ \E T \in Types, from_wire \in BOOLEAN, feed \in Feeds :
        /\ IF from_wire THEN last.op = "serialize" /\ feed = <<>> ELSE last.op = "none"
        /\ LET input == IF from_wire THEN wire.bytes ELSE feed
               seed == AnyDeserializeSeed_new(T)
           IN  last' = [op |-> "seed_deserialize", kind |-> "any", T |-> T,
                        input |-> input, from_wire |-> from_wire]
                       @@ AnyDeserializeSeed_deserialize(seed, input)
    /\ UNCHANGED <<type_id, operands, debug_assertions, wire, panicked, manifestVars, traceVars>>

Init == MagicInit /\ ManifestIdle /\ TraceIdle

Next ==
    \/ Eq
    \/ Cmp
    \/ HashInto
    \/ DowncastRef
    \/ AsSerialize
    \/ Serialize
    \/ MagicSeedDeserialize
    \/ AnySeedDeserialize

Spec == Init /\ [][Next]_vars

(***************************************************************************)
(* Claims about magic_any.rs, checked under Spec.                            *)
(***************************************************************************)
SameType(a, b) == TypeIdOf(a.ty) = TypeIdOf(b.ty)

\* C1: equals(a, b) is true exactly when b has a's runtime type identity and the
\* concrete values are equal under that type's own equality; for values of
\* differing types it is false, and the call never fails or aborts.
C1_EqualsIffSameTypeAndEqual ==
    last.op = "eq" =>
        /\ last.outcome = "ok"
        /\ ~panicked
        /\ last.ret = (/\ SameType(last.self, last.other)
                       /\ ConcreteEq(last.self.ty, last.self.val, last.other.val))
        /\ (~SameType(last.self, last.other) => last.ret = FALSE)

\* two values of differing types with the same payload were compared
C1_Witness ==
    /\ last.op = "eq"
    /\ last.self.ty # last.other.ty
    /\ last.self.val = last.other.val
    /\ last.ret = FALSE

\* C2: compare is a total order over erased values of any mix of types:
\* compare(a, b) is the reverse of compare(b, a), it is transitive, it is Equal
\* exactly when equals(a, b), same-type operands get the concrete ordering and
\* differing-type operands the ordering of their type identities.
C2_CompareTotalOrder ==
    last.op = "cmp" =>
        LET a == last.self
            b == last.other
        IN  /\ last.outcome = "ok"
            /\ last.ret \in {"Less", "Equal", "Greater"}
            /\ Ord_cmp(b, a) = Reversed(last.ret)
            /\ (last.ret = "Equal") = PartialEq_eq(a, b)
            /\ \A c \in Values : Ord_cmp(b, c) = last.ret => Ord_cmp(a, c) = last.ret
            /\ IF SameType(a, b) THEN last.ret = ConcreteCmp(a.ty, a.val, b.val)
               ELSE last.ret = IntCmp(TypeIdOf(a.ty), TypeIdOf(b.ty))

\* two values of differing types were compared and the first came out greater
C2_Witness ==
    /\ last.op = "cmp"
    /\ ~SameType(last.self, last.other)
    /\ last.ret = "Greater"

\* C3: equals(a, b) implies hash(a) = hash(b) from the same initial hasher state.
C3_EqualImpliesSameHash ==
    last.op = "hash" =>
        \A other \in Values :
            PartialEq_eq(last.self, other) => Hash_hash(other, last.hasher) = last.ret

\* a value was hashed that equals a value with another payload
C3_Witness ==
    /\ last.op = "hash"
    /\ \E other \in Values :
        other.val # last.self.val /\ PartialEq_eq(last.self, other)

\* C4: serializing an erased v with as_serialize::<T> and deserializing the bytes
\* with MagicAnyDeserializeSeed::new::<T>() yields a value of the same type
\* identity that equals v.
C4_RoundTrip ==
    (/\ last.op = "seed_deserialize"
     /\ last.kind = "magic"
     /\ last.from_wire
     /\ last.T = wire.T) =>
        /\ last.outcome = "ok"
        /\ SameType(last.ret, wire.of)
        /\ PartialEq_eq(last.ret, wire.of)

\* a Keyed value went through serialization and back
C4_Witness ==
    /\ last.op = "seed_deserialize"
    /\ last.kind = "magic"
    /\ last.from_wire
    /\ last.T = wire.T
    /\ wire.of.ty = "Keyed"
    /\ last.outcome = "ok"

\* C5: as_serialize::<T> on a value whose concrete type is not T panics, returning
\* neither a value nor an error; with a matching T it returns the concrete value's
\* reference; equals, compare and the read-only downcast never abort.
C5_SerializeMismatchAborts ==
    /\ last.op = "as_serialize" =>
        IF TypeIdOf(last.self.ty) # TypeIdOf(last.T)
        THEN last.outcome = "panic" /\ panicked
        ELSE last.outcome = "ok" /\ ~panicked
             /\ last.ret = [ty |-> last.T, val |-> last.self.val]
    /\ last.op \in {"eq", "cmp", "downcast_ref"} => last.outcome = "ok" /\ ~panicked
    /\ last.op = "downcast_ref" =>
        last.ret.some = (TypeIdOf(last.self.ty) = TypeIdOf(last.T))
    /\ panicked => last.op = "as_serialize"

\* as_serialize was called with a type that is not the value's
C5_Witness ==
    /\ last.op = "as_serialize"
    /\ last.self.ty # last.T
    /\ last.outcome = "panic"

\* C6: for both seed kinds one deserialize call invokes the captured function once;
\* a codec failure comes back as an error value carrying it, a success as a boxed
\* value whose type identity is the seed's type; no abort.
C6_SeedSingleAttempt ==
    last.op = "seed_deserialize" =>
        LET r == ConcreteDeserialize(last.T, last.input)
        IN  /\ last.calls = 1
            /\ ~panicked
            /\ IF r.ok
               THEN /\ last.outcome = "ok"
                    /\ TypeIdOf(last.ret.ty) = TypeIdOf(last.T)
                    /\ last.ret.val = r.val
               ELSE /\ last.outcome = "err"
                    /\ last.err = [custom |-> r.err]

\* a seed was fed bytes its type's codec rejects
C6_Witness ==
    /\ last.op = "seed_deserialize"
    /\ last.kind = "any"
    /\ last.input # <<>>
    /\ last.outcome = "err"

(***************************************************************************)
(* manifest.rs: DevManifestContentSource                                     *)
(***************************************************************************)
\* the printable ASCII characters in byte order, from 32 to 95 and from 97 to 126:
\* a String orders by its bytes
AsciiLow ==
    <<" ", "!", "\"", "#", "$", "%", "&", "'", "(", ")", "*", "+", ",", "-", ".", "/", "0", "1",
      "2", "3", "4", "5", "6", "7", "8", "9", ":", ";", "<", "=", ">", "?", "@", "A", "B", "C",
      "D", "E", "F", "G", "H", "I", "J", "K", "L", "M", "N", "O", "P", "Q", "R", "S", "T", "U",
      "V", "W", "X", "Y", "Z", "[", "\\", "]", "^", "_">>

AsciiHigh ==
    <<"a", "b", "c", "d", "e", "f", "g", "h", "i", "j", "k", "l", "m", "n", "o", "p", "q", "r",
      "s", "t", "u", "v", "w", "x", "y", "z", "{", "|", "}", "~">>

CharCode(c) ==
    IF \E i \in 1..Len(AsciiLow) : AsciiLow[i] = c
    THEN 31 + (CHOOSE i \in 1..Len(AsciiLow) : AsciiLow[i] = c)
    ELSE 96 + (CHOOSE i \in 1..Len(AsciiHigh) : AsciiHigh[i] = c)

RECURSIVE StrLess(_, _)
StrLess(a, b) ==
    IF b = <<>> THEN FALSE
    ELSE IF a = <<>> THEN TRUE
    ELSE IF a[1] = b[1] THEN StrLess(Tail(a), Tail(b))
    ELSE CharCode(a[1]) < CharCode(b[1])

PagesManifestPath ==
    <<"_", "n", "e", "x", "t", "/", "s", "t", "a", "t", "i", "c", "/", "d", "e", "v", "e", "l",
    "o", "p", "m", "e", "n", "t", "/", "_", "d", "e", "v", "P", "a", "g", "e", "s", "M", "a",
    "n", "i", "f", "e", "s", "t", ".", "j", "s", "o", "n">>

MiddlewareManifestPath ==
    <<"_", "n", "e", "x", "t", "/", "s", "t", "a", "t", "i", "c", "/", "d", "e", "v", "e", "l",
    "o", "p", "m", "e", "n", "t", "/", "_", "d", "e", "v", "M", "i", "d", "d", "l", "e", "w",
    "a", "r", "e", "M", "a", "n", "i", "f", "e", "s", "t", ".", "j", "s", "o", "n">>

APPLICATION_JSON ==
    <<"a", "p", "p", "l", "i", "c", "a", "t", "i", "o", "n", "/", "j", "s", "o", "n">>


Some(x) == [some |-> TRUE, val |-> x]

None == [some |-> FALSE]

\* a slip: the slash after the base path is optional
strip_base_path_lax(path, base) ==
    IF base = <<>> THEN [ok |-> TRUE, path |-> Some(path)]
    ELSE IF base[1] # "/"
    THEN [ok |-> FALSE, err |-> <<"base path must start with a slash, got", base>>]
    ELSE LET stem == Tail(base)
         IN  IF ~StartsWith(path, stem) THEN [ok |-> TRUE, path |-> None]
             ELSE LET rest == Drop(path, Len(stem))
                  IN  IF StartsWith(rest, <<"/">>)
                      THEN [ok |-> TRUE, path |-> Some(Tail(rest))]
                      ELSE [ok |-> TRUE, path |-> Some(rest)]

\* fn strip_base_path(path, base_path) -> Result<Option<&str>>
strip_base_path(path, base) ==
    IF base = <<>> THEN [ok |-> TRUE, path |-> Some(path)]
    ELSE IF base[1] # "/"
    THEN [ok |-> FALSE, err |-> <<"base path must start with a slash, got", base>>]
    ELSE LET stem == Tail(base)
         IN  IF ~StartsWith(path, stem) THEN [ok |-> TRUE, path |-> None]
             ELSE LET rest == Drop(path, Len(stem))
                  IN  IF StartsWith(rest, <<"/">>)
                      THEN [ok |-> TRUE, path |-> Some(Tail(rest))]
                      ELSE [ok |-> TRUE, path |-> None]

\* base_path.as_deref().unwrap_or("")
base_path_prefix == IF base_path.some THEN base_path.val ELSE <<>>

\* format!("{}/{}", base_path_prefix, pathname)
Route(prefix, pathname) == prefix \o <<"/">> \o pathname

Range(seq) == {seq[i] : i \in 1..Len(seq)}

\* IndexSet::insert: appends unless the set holds the value
IndexSet_insert(set, x) == IF x \in Range(set) THEN set ELSE Append(set, x)

RECURSIVE InsertSorted(_, _)
InsertSorted(sorted, x) ==
    IF sorted = <<>> THEN <<x>>
    ELSE IF StrLess(x, sorted[1]) THEN <<x>> \o sorted
    ELSE <<sorted[1]>> \o InsertSorted(Tail(sorted), x)

\* a slip: the routes stay in insertion order
IndexSet_sort_skipped(set) == set

\* IndexSet::sort: the entries in String order
RECURSIVE IndexSet_sort(_)
IndexSet_sort(set) ==
    IF set = <<>> THEN <<>>
    ELSE InsertSorted(IndexSet_sort(Take(set, Len(set) - 1)), set[Len(set)])

\* serde_json's string: quoted, with the quote and the backslash escaped
RECURSIVE JsonEscape(_)
JsonEscape(str) ==
    IF str = <<>> THEN <<>>
    ELSE (IF str[1] = "\"" \/ str[1] = "\\" THEN <<"\\", str[1]>> ELSE <<str[1]>>)
         \o JsonEscape(Tail(str))

JsonString(str) == <<"\"">> \o JsonEscape(str) \o <<"\"">>

RECURSIVE JsonItems(_)
JsonItems(strs) ==
    IF strs = <<>> THEN <<>>
    ELSE IF Len(strs) = 1 THEN JsonString(strs[1])
    ELSE JsonString(strs[1]) \o <<",">> \o JsonItems(Tail(strs))

\* serde_json::to_string(&json!({ "pages": pages }))
JsonPages(pages) ==
    <<"{">> \o JsonString(<<"p", "a", "g", "e", "s">>) \o <<":", "[">>
        \o JsonItems(pages) \o <<"]", "}">>

\* a slip: the children of an API or page source are not queued
queue_after_pop_leaf(q, cs) ==
    IF sources[cs].kind = "other" THEN Take(q, Len(q) - 1) \o sources[cs].children
    ELSE Take(q, Len(q) - 1)

\* queue.pop(), then queue.extend(content_source.get_children())
queue_after_pop(q, cs) == Take(q, Len(q) - 1) \o sources[cs].children

(***************************************************************************)
(* The content sources get is run on.                                        *)
(***************************************************************************)
\* the number of content sources
MaxSources == 3

Nodes == 1..MaxSources

\* the parent of every source, 0 for a page root: a forest
Parents == {p \in [Nodes -> 0..MaxSources] : \A n \in Nodes : p[n] < n}

ChildrenOf(p, n) == SelectSeq([i \in Nodes |-> i], LAMBDA i : p[i] = n)

\* what get_pathname yields, with or without a leading slash
PathNames(slash) ==
    IF slash THEN {<<"/", "a">>, <<"/", "b", "/", "c">>}
    ELSE {<<"a">>, <<"b", "/", "c">>}

\* what resolve_from tells of a source: a NodeApiContentSource, a
\* NodeRenderContentSource or neither, and the pathname of the first two
Descriptions(slash) ==
    {[kind |-> "other", pathname |-> <<>>]}
        \cup {[kind |-> k, pathname |-> n] : k \in {"api", "page"}, n \in PathNames(slash)}

BasePaths == {None, Some(<<>>), Some(<<"/", "b", "a", "s", "e">>), Some(<<"b", "a", "s", "e">>)}

Requests ==
    {PagesManifestPath,
     MiddlewareManifestPath,
     <<"b", "a", "s", "e", "/">> \o PagesManifestPath,
     <<"b", "a", "s", "e", "/">> \o MiddlewareManifestPath,
     <<"/", "b", "a", "s", "e", "/">> \o PagesManifestPath,
     <<"b", "a", "s", "e">> \o PagesManifestPath,
     <<"b", "a", "s", "e">>,
     <<"b", "a", "s", "e", "/", "x">>,
     <<>>}

MagicIdle ==
    /\ type_id = [T \in Types |-> 1]
    /\ operands = <<>>
    /\ debug_assertions = FALSE
    /\ last = [op |-> "none"]
    /\ wire = [written |-> FALSE]
    /\ panicked = FALSE

ManifestInit ==
    /\ base_path \in BasePaths
    /\ \E p \in Parents, slash \in BOOLEAN :
        \E d \in [Nodes -> Descriptions(slash)] :
            /\ sources = [n \in Nodes |->
                            [kind |-> d[n].kind, pathname |-> d[n].pathname,
                             children |-> ChildrenOf(p, n)]]
            /\ page_roots = ChildrenOf(p, 0)
    /\ mpc = "ready"
    /\ orig_path = <<>>
    /\ queue = <<>>
    /\ routes = <<>>
    /\ visits = [n \in Nodes |-> 0]
    /\ result = [kind |-> "none"]

\* get, up to the match on the stripped path
Get ==
    /\ mpc = "ready"
    /\ \E req \in Requests :
        LET stripped == IF base_path.some THEN strip_base_path(req, base_path.val)
                        ELSE [ok |-> TRUE, path |-> Some(req)]
        IN  /\ orig_path' = req
            /\ IF ~stripped.ok
               THEN /\ result' = [kind |-> "error", err |-> stripped.err]
                    /\ mpc' = "done"
                    /\ UNCHANGED queue
               ELSE IF stripped.path = Some(PagesManifestPath)
               THEN /\ queue' = page_roots
                    /\ mpc' = "find_routes"
                    /\ UNCHANGED result
               ELSE IF stripped.path = Some(MiddlewareManifestPath)
               THEN /\ result' = [kind |-> "exact", content_type |-> APPLICATION_JSON,
                                  body |-> <<"[", "]">>]
                    /\ mpc' = "done"
                    /\ UNCHANGED queue
               ELSE /\ result' = [kind |-> "not_found"]
                    /\ mpc' = "done"
                    /\ UNCHANGED queue
    /\ UNCHANGED <<base_path, page_roots, sources, routes, visits, magicVars, traceVars>>

\* one iteration of find_routes' while let Some(content_source) = queue.pop()
FindRoutesIteration ==
    /\ mpc = "find_routes"
    /\ queue # <<>>
    /\ LET content_source == queue[Len(queue)]
       IN  /\ queue' = queue_after_pop(queue, content_source)
           /\ visits' = [visits EXCEPT ![content_source] = @ + 1]
           /\ IF sources[content_source].kind = "api"
              THEN routes' = IndexSet_insert(routes,
                                Route(base_path_prefix, sources[content_source].pathname))
              ELSE IF sources[content_source].kind = "page"
              THEN routes' = IndexSet_insert(routes,
                                Route(base_path_prefix, sources[content_source].pathname))
              ELSE UNCHANGED routes
    /\ UNCHANGED <<base_path, page_roots, sources, mpc, orig_path, result,
                   magicVars, traceVars>>

\* the queue is empty: routes.sort() and the return to get
FindRoutesReturn ==
    /\ mpc = "find_routes"
    /\ queue = <<>>
    /\ routes' = IndexSet_sort(routes)
    /\ mpc' = "respond"
    /\ UNCHANGED <<base_path, page_roots, sources, orig_path, queue, visits, result,
                   magicVars, traceVars>>

\* get builds the manifest file from the routes
GetRespond ==
    /\ mpc = "respond"
    /\ result' = [kind |-> "exact", content_type |-> APPLICATION_JSON,
                  body |-> JsonPages(routes)]
    /\ mpc' = "done"
    /\ UNCHANGED <<base_path, page_roots, sources, orig_path, queue, routes, visits,
                   magicVars, traceVars>>

ManifestSpecInit == ManifestInit /\ MagicIdle /\ TraceIdle

ManifestNext ==
    \/ Get
    \/ FindRoutesIteration
    \/ FindRoutesReturn
    \/ GetRespond

ManifestSpec == ManifestSpecInit /\ [][ManifestNext]_vars

(***************************************************************************)
(* Claims about manifest.rs, checked under ManifestSpec.                     *)
(***************************************************************************)
RECURSIVE Reach(_)
Reach(S) ==
    LET more == S \cup UNION {Range(sources[n].children) : n \in S}
    IN  IF more = S THEN S ELSE Reach(more)

\* the sources find_routes can reach from page_roots through get_children
Reachable == Reach(Range(page_roots))

ApiOrPage == {n \in Nodes : sources[n].kind \in {"api", "page"}}

\* the pathnames the reachable API and page sources yield
YieldedPathnames == {sources[n].pathname : n \in Reachable \cap ApiOrPage}

EmptyBasePath == ~base_path.some \/ base_path.val = <<>>

\* the request names the pages manifest, after the base path
PagesRequested ==
    /\ mpc # "ready"
    /\ \/ EmptyBasePath /\ orig_path = PagesManifestPath
       \/ /\ ~EmptyBasePath
          /\ base_path.val[1] = "/"
          /\ orig_path = Tail(base_path.val) \o <<"/">> \o PagesManifestPath

IsSorted(strs) == \A i \in 1..(Len(strs) - 1) : StrLess(strs[i], strs[i + 1])

Body_a_bc ==
    <<"{", "\"", "p", "a", "g", "e", "s", "\"", ":", "[", "\"", "/", "a", "\"", ",", "\"", "/",
      "b", "/", "c", "\"", "]", "}">>

\* C7 as the spec states it: the pages manifest is a success with JSON content
\* type listing the sorted routes, and page roots yielding the pathnames "/a" and
\* "/b/c" with an empty base path give a body of exactly {"pages":["/a","/b/c"]}.
C7_Original ==
    (PagesRequested /\ mpc = "done") =>
        /\ result.kind = "exact"
        /\ result.content_type = APPLICATION_JSON
        /\ IsSorted(routes)
        /\ (EmptyBasePath /\ YieldedPathnames = {<<"/", "a">>, <<"/", "b", "/", "c">>})
            => result.body = Body_a_bc

\* C7, amended: the pages manifest is a success with JSON content type whose body is
\* {"pages":[...]} listing, sorted, the base path, a slash and the pathname of each
\* API or page source; page roots yielding "a" and "b/c" with an empty base path
\* give exactly {"pages":["/a","/b/c"]}.
C7_PagesManifest ==
    (PagesRequested /\ mpc = "done") =>
        /\ result.kind = "exact"
        /\ result.content_type = APPLICATION_JSON
        /\ result.body = JsonPages(routes)
        /\ StartsWith(result.body, Take(Body_a_bc, 10))
        /\ IsSorted(routes)
        /\ Range(routes) = {base_path_prefix \o <<"/">> \o n : n \in YieldedPathnames}
        /\ (EmptyBasePath /\ YieldedPathnames = {<<"a">>, <<"b", "/", "c">>})
            => result.body = Body_a_bc

\* the pages manifest was served for sources yielding "a" and "b/c", no base path
C7_Witness ==
    /\ PagesRequested
    /\ mpc = "done"
    /\ EmptyBasePath
    /\ YieldedPathnames = {<<"a">>, <<"b", "/", "c">>}
    /\ result.kind = "exact"
    /\ result.body = Body_a_bc

BaseSlash == <<"/", "b", "a", "s", "e">>

Count(seq, x) == Cardinality({i \in 1..Len(seq) : seq[i] = x})

\* C10: find_routes ends with an empty queue after popping every source reachable
\* from page_roots once, the children of API and page sources included; its result
\* holds one entry for each distinct route of a reachable API or page source and
\* nothing else.
C10_FindRoutesVisitsOnce ==
    /\ \A n \in Nodes : visits[n] + Count(queue, n) <= 1
    /\ \A n \in Nodes : visits[n] > 0 \/ Count(queue, n) > 0 => n \in Reachable
    /\ Len(routes) = Cardinality(Range(routes))
    /\ (mpc = "find_routes" /\ queue = <<>>) => \A n \in Reachable : visits[n] = 1
    /\ (PagesRequested /\ mpc \in {"respond", "done"}) =>
        /\ queue = <<>>
        /\ \A n \in Nodes : visits[n] = IF n \in Reachable THEN 1 ELSE 0
        /\ Range(routes) =
            {Route(base_path_prefix, sources[n].pathname) : n \in Reachable \cap ApiOrPage}

\* find_routes returned for a tree where a page or API source has a page or API
\* child and two sources yield the same route
C10_Witness ==
    /\ mpc = "respond"
    /\ queue = <<>>
    /\ \E n \in ApiOrPage, m \in ApiOrPage :
        /\ Count(sources[n].children, m) = 1
        /\ sources[n].pathname = sources[m].pathname
    /\ Len(routes) < Cardinality(ApiOrPage)

(***************************************************************************)
(* main.rs: the import-trace CLI.  The Args struct holds both sides of the   *)
(* conflict left in the file, depth and reverse, as main reads both.         *)
(***************************************************************************)
\* the longest list of files, and of errors, a trace returns
MaxFiles == 2

FileNames == {"a.ts", "b.ts"}

TraceErrors == {"failed to read file", "failed to parse file"}

RECURSIVE SeqsUpTo(_, _)
SeqsUpTo(S, n) ==
    IF n = 0 THEN {<<>>}
    ELSE SeqsUpTo(S, n - 1) \cup {Append(q, x) : q \in {r \in SeqsUpTo(S, n - 1) : Len(r) = n - 1}, x \in S}

\* a slip: the files decide which branch runs
errors_is_empty_files(r) == r.files = <<>>

\* result.errors.is_empty()
errors_is_empty(r) == r.errors = <<>>

TraceInit ==
    /\ args \in [cwd : {"none", "valid", "invalid"}, reverse : BOOLEAN,
                 depth : {None, Some(1)}]
    /\ tpc = "start"
    /\ trace_result = [traced |-> FALSE]
    /\ cursor = 0
    /\ stdout = <<>>
    /\ stderr = <<>>
    /\ exit_code = -1

\* AbsoluteSystemPathBuf::from_cwd(cwd)? fails: main returns the PathError
CwdFails ==
    /\ tpc = "start"
    /\ args.cwd = "invalid"
    /\ stderr' = Append(stderr, <<"Error: ", "PathError">>)
    /\ exit_code' = 1
    /\ tpc' = "exited"
    /\ UNCHANGED <<args, trace_result, cursor, stdout, magicVars, manifestVars>>

\* tracer.reverse_trace() or tracer.trace(args.depth) returns its TraceResult
Trace ==
    /\ tpc = "start"
    /\ args.cwd # "invalid"
    /\ \E files \in SeqsUpTo(FileNames, MaxFiles), errors \in SeqsUpTo(TraceErrors, MaxFiles) :
        trace_result' = [traced |-> TRUE, by |-> IF args.reverse THEN "reverse_trace" ELSE "trace",
                         files |-> files, errors |-> errors]
    /\ tpc' = "check"
    /\ UNCHANGED <<args, cursor, stdout, stderr, exit_code, magicVars, manifestVars>>

\* if !result.errors.is_empty()
CheckErrors ==
    /\ tpc = "check"
    /\ tpc' = IF ~errors_is_empty(trace_result) THEN "errors" ELSE "files"
    /\ cursor' = 1
    /\ UNCHANGED <<args, trace_result, stdout, stderr, exit_code, magicVars, manifestVars>>

\* eprintln!("error: {}", error)
PrintError ==
    /\ tpc = "errors"
    /\ cursor <= Len(trace_result.errors)
    /\ stderr' = Append(stderr, <<"error: ", trace_result.errors[cursor]>>)
    /\ cursor' = cursor + 1
    /\ UNCHANGED <<args, tpc, trace_result, stdout, exit_code, magicVars, manifestVars>>

\* std::process::exit(1)
ExitFailure ==
    /\ tpc = "errors"
    /\ cursor > Len(trace_result.errors)
    /\ exit_code' = 1
    /\ tpc' = "exited"
    /\ UNCHANGED <<args, trace_result, cursor, stdout, stderr, magicVars, manifestVars>>

\* println!("{}", file)
PrintFile ==
    /\ tpc = "files"
    /\ cursor <= Len(trace_result.files)
    /\ stdout' = Append(stdout, trace_result.files[cursor])
    /\ cursor' = cursor + 1
    /\ UNCHANGED <<args, tpc, trace_result, stderr, exit_code, magicVars, manifestVars>>

\* Ok(())
ReturnOk ==
    /\ tpc = "files"
    /\ cursor > Len(trace_result.files)
    /\ exit_code' = 0
    /\ tpc' = "exited"
    /\ UNCHANGED <<args, trace_result, cursor, stdout, stderr, magicVars, manifestVars>>

TraceSpecInit == TraceInit /\ MagicIdle /\ ManifestIdle

TraceNext ==
    \/ CwdFails
    \/ Trace
    \/ CheckErrors
    \/ PrintError
    \/ ExitFailure
    \/ PrintFile
    \/ ReturnOk

TraceSpec == TraceSpecInit /\ [][TraceNext]_vars

(***************************************************************************)
(* The claim about main.rs, checked under TraceSpec.                         *)
(***************************************************************************)
ErrorLines(errors) == [i \in 1..Len(errors) |-> <<"error: ", errors[i]>>]

\* C9: once a trace, forward or reverse, has returned, main ends in one of two
\* ways: with no errors it prints every file, one per line, to standard output and
\* exits with status 0; with an error it prints every error to the diagnostic
\* stream and exits with a non-zero status, and standard output stays empty.
C9_TraceOutcome ==
    trace_result.traced =>
        /\ stdout # <<>> => trace_result.errors = <<>>
        /\ stderr # <<>> => trace_result.errors # <<>>
        /\ tpc = "exited" =>
            IF trace_result.errors = <<>>
            THEN /\ exit_code = 0
                 /\ stdout = trace_result.files
                 /\ stderr = <<>>
            ELSE /\ exit_code # 0
                 /\ exit_code # -1
                 /\ stderr = ErrorLines(trace_result.errors)
                 /\ stdout = <<>>

\* a reverse trace that found files and hit two errors has exited
C9_Witness ==
    /\ trace_result.traced
    /\ trace_result.by = "reverse_trace"
    /\ Len(trace_result.errors) = 2
    /\ trace_result.files # <<>>
    /\ tpc = "exited"
    /\ exit_code = 1

====
